---- MODULE Spec2Model ----
(***************************************************************************)
(* callChatAPI (src/src/lib/utils.ts): the streaming chat response decoder. *)
(* Text is a sequence of one-character strings; the response body is a     *)
(* sequence of bytes, an ASCII byte being written as its character and the *)
(* two bytes of U+00E9 as "C3" and "A9".                                   *)
(***************************************************************************)
EXTENDS Integers, Sequences, FiniteSets, TLC

LF == "\n"
BS == "\\"
QUOTE == "\""
E9 == "U+00E9"
FFFD == "U+FFFD"

Null == [t |-> "null", v |-> <<>>]
Undefined == [t |-> "undefined", v |-> <<>>]
Str(s) == [t |-> "str", v |-> s]

(***************************************************************************)
(* String primitives of the JavaScript runtime used by callChatAPI.        *)
(***************************************************************************)
IsWs(c) == c \in {" ", "\t", "\r", LF}

RECURSIVE FirstNonWs(_, _)
\* the first index at or after i that holds no white space (Len(s) + 1: none)
FirstNonWs(s, i) ==
  IF i > Len(s) THEN Len(s) + 1
  ELSE IF IsWs(s[i]) THEN FirstNonWs(s, i + 1) ELSE i

RECURSIVE LastNonWs(_, _)
\* the last index at or before i that holds no white space (0: none)
LastNonWs(s, i) ==
  IF i < 1 THEN 0
  ELSE IF IsWs(s[i]) THEN LastNonWs(s, i - 1) ELSE i

\* String.prototype.trim
Trim(s) == SubSeq(s, FirstNonWs(s, 1), LastNonWs(s, Len(s)))

\* String.prototype.startsWith
StartsWith(s, p) == Len(s) >= Len(p) /\ SubSeq(s, 1, Len(p)) = p

\* String.prototype.includes
Includes(s, p) ==
  \E i \in 1..(Len(s) - Len(p) + 1) : \A j \in 1..Len(p) : s[i + j - 1] = p[j]

\* String.prototype.substring(n)
Substring(s, n) == SubSeq(s, n + 1, Len(s))

\* a position of a text that yields no character
Dropped == ""

\* the characters of pieces in order, the dropped positions left out
Kept(pieces) == SelectSeq(pieces, LAMBDA c : c # Dropped)

\* a variant without the replacement: the text is passed on as it is
KeepEscapedNewlines(s) == s

\* text.replace(/\\n/g, "\n"): every backslash followed by n becomes a newline.
\* A match starts at each backslash that an n follows; the n of a match is dropped.
ReplaceEscapedNewlines(s) ==
  Kept([i \in 1..Len(s) |->
          IF s[i] = BS /\ i < Len(s) /\ s[i + 1] = "n" THEN LF
          ELSE IF s[i] = "n" /\ i > 1 /\ s[i - 1] = BS THEN Dropped
          ELSE s[i]])

\* buffer.split("\n"): the pieces between the newlines, always at least one
Split(s) ==
  LET nl      == {i \in 1..Len(s) : s[i] = LF}
      Nth(k)  == CHOOSE i \in nl : Cardinality({j \in nl : j < i}) = k - 1
      From(k) == IF k = 1 THEN 1 ELSE Nth(k - 1) + 1
      To(k)   == IF k = Cardinality(nl) + 1 THEN Len(s) ELSE Nth(k) - 1
  IN  [k \in 1..(Cardinality(nl) + 1) |-> SubSeq(s, From(k), To(k))]

(***************************************************************************)
(* TextDecoder (UTF-8).  A lead byte waits for its continuation byte; a    *)
(* lead byte followed by anything else, and a continuation byte on its     *)
(* own, decode to U+FFFD.  With {stream: true} a lead byte at the end of a *)
(* chunk is carried to the next decode call.                               *)
(***************************************************************************)
\* decoder.decode(value, {stream: true}); lead: a lead byte is carried in.
\* A lead byte yields U+FFFD when the byte after it is no continuation byte and
\* nothing when it is one or when the chunk ends with it (it is carried on).
DecodeStream(bytes, lead) ==
  LET n == Len(bytes)
      Out(i) ==
        IF bytes[i] = "C3"
        THEN IF i < n /\ bytes[i + 1] # "A9" THEN FFFD ELSE Dropped
        ELSE IF bytes[i] = "A9"
             THEN IF (i = 1 /\ lead) \/ (i > 1 /\ bytes[i - 1] = "C3") THEN E9 ELSE FFFD
             ELSE bytes[i]
      carried == IF lead /\ n > 0 /\ bytes[1] # "A9" THEN <<FFFD>> ELSE <<>>
  IN  [text    |-> carried \o Kept([i \in 1..n |-> Out(i)]),
       pending |-> IF n = 0 THEN lead ELSE bytes[n] = "C3"]

\* a whole-body decode (response.json()): a trailing lead byte is flushed as U+FFFD
DecodeAll(bytes) ==
  LET r == DecodeStream(bytes, FALSE)
  IN  IF r.pending THEN r.text \o <<FFFD>> ELSE r.text

(***************************************************************************)
(* JSON.parse.  Values are tagged records [t, v]: "str" (v the text),      *)
(* "num" (v the digits), "bool" (v <<"true">> or <<"false">>), "null",     *)
(* "arr" (v the elements) and "obj" (v the members, <<key, value>> pairs   *)
(* in source order).  A result is [ok, val, next], next the index after    *)
(* the value.                                                              *)
(***************************************************************************)
Digits == {"0", "1", "2", "3", "4", "5", "6", "7", "8", "9"}
ParseFail == [ok |-> FALSE, val |-> Null, next |-> 0]
ParseOk(val, next) == [ok |-> TRUE, val |-> val, next |-> next]

RECURSIVE StringEnd(_, _)
\* the index of the quote that closes the string whose characters start at i
\* (0: there is none, or a control character stands in the string)
StringEnd(s, i) ==
  IF i > Len(s) THEN 0
  ELSE IF s[i] = QUOTE THEN i
  ELSE IF s[i] = BS THEN StringEnd(s, i + 2)
  ELSE IF s[i] \in {LF, "\t", "\r"} THEN 0
  ELSE StringEnd(s, i + 1)

EscapeFail == [ok |-> FALSE, v |-> <<>>]

RECURSIVE Unescape(_, _)
\* the text of the characters raw[i..], a backslash and the character after it
\* standing for one character: \n, \t, \r, \\, \" and \/ are the escapes
Unescape(raw, i) ==
  IF i > Len(raw) THEN [ok |-> TRUE, v |-> <<>>]
  ELSE IF raw[i] # BS
       THEN LET r == Unescape(raw, i + 1)
            IN  IF r.ok THEN [r EXCEPT !.v = <<raw[i]>> \o @] ELSE EscapeFail
       ELSE IF i = Len(raw) \/ raw[i + 1] \notin {"n", "t", "r", BS, QUOTE, "/"}
            THEN EscapeFail
            ELSE LET r == Unescape(raw, i + 2)
                     c == CASE raw[i + 1] = "n" -> LF
                            [] raw[i + 1] = "t" -> "\t"
                            [] raw[i + 1] = "r" -> "\r"
                            [] OTHER -> raw[i + 1]
                 IN  IF r.ok THEN [r EXCEPT !.v = <<c>> \o @] ELSE EscapeFail

\* a string whose opening quote stands before index i
ParseString(s, i) ==
  LET e   == StringEnd(s, i)
      raw == SubSeq(s, i, e - 1)
  IN  IF e = 0 THEN ParseFail
      ELSE IF \A k \in 1..Len(raw) : raw[k] # BS THEN ParseOk(Str(raw), e + 1)
      ELSE LET u == Unescape(raw, 1)
           IN  IF u.ok THEN ParseOk(Str(u.v), e + 1) ELSE ParseFail

RECURSIVE DigitsEnd(_, _)
DigitsEnd(s, i) ==
  IF i <= Len(s) /\ s[i] \in Digits THEN DigitsEnd(s, i + 1) ELSE i

ParseNumber(s, i) ==
  LET e == DigitsEnd(s, i)
  IN  IF e = i \/ (s[i] = "0" /\ e > i + 1) THEN ParseFail
      ELSE ParseOk([t |-> "num", v |-> SubSeq(s, i, e - 1)], e)

ParseLiteral(s, i, word, val) ==
  IF SubSeq(s, i, i + Len(word) - 1) = word
  THEN ParseOk(val, i + Len(word)) ELSE ParseFail

RECURSIVE Parse(_, _, _, _)
RECURSIVE ParseAt(_, _, _, _)
RECURSIVE AfterKey(_, _, _)
RECURSIVE AfterColon(_, _, _, _)
RECURSIVE AfterValue(_, _, _, _)
RECURSIVE Close(_, _, _, _)

\* The recursive descent from index i.  what = "value": a value starts here.
\* what = "members": the members of an object after "{" or ",", each
\* "key" : value and then "," or "}"; acc holds the members read so far.
\* what = "elements": the elements of an array after "[" or ",", each a value and
\* then "," or "]"; acc holds the elements read so far.
Parse(what, s, i, acc) == ParseAt(what, s, FirstNonWs(s, i), acc)

\* "{" or "[" stands at k and m is the next index that holds no white space
Open(what, s, m, closing, empty) ==
  IF m <= Len(s) /\ s[m] = closing THEN ParseOk(empty, m + 1)
  ELSE Parse(what, s, m, <<>>)

ParseAt(what, s, k, acc) ==
  IF k > Len(s) THEN ParseFail
  ELSE IF what = "members"
       THEN IF s[k] = QUOTE THEN AfterKey(s, ParseString(s, k + 1), acc) ELSE ParseFail
  ELSE IF what = "elements" THEN AfterValue(what, s, Parse("value", s, k, <<>>), acc)
  ELSE IF s[k] = QUOTE THEN ParseString(s, k + 1)
  ELSE IF s[k] = "{"
       THEN Open("members", s, FirstNonWs(s, k + 1), "}", [t |-> "obj", v |-> <<>>])
  ELSE IF s[k] = "["
       THEN Open("elements", s, FirstNonWs(s, k + 1), "]", [t |-> "arr", v |-> <<>>])
  ELSE IF s[k] = "n" THEN ParseLiteral(s, k, <<"n", "u", "l", "l">>, Null)
  ELSE IF s[k] = "t"
       THEN ParseLiteral(s, k, <<"t", "r", "u", "e">>, [t |-> "bool", v |-> <<"true">>])
  ELSE IF s[k] = "f"
       THEN ParseLiteral(s, k, <<"f", "a", "l", "s", "e">>,
                         [t |-> "bool", v |-> <<"false">>])
  ELSE IF s[k] \in Digits THEN ParseNumber(s, k)
  ELSE ParseFail

\* a member's key has been read: a colon and the member's value follow
AfterKey(s, key, acc) ==
  IF key.ok THEN AfterColon(s, FirstNonWs(s, key.next), key.val.v, acc) ELSE ParseFail

AfterColon(s, c, name, acc) ==
  IF c <= Len(s) /\ s[c] = ":"
  THEN AfterValue("members", s, Parse("value", s, c + 1, <<>>), Append(acc, <<name>>))
  ELSE ParseFail

\* a member's value (its key is the last of acc) or an element has been read
AfterValue(what, s, val, acc) ==
  IF ~val.ok THEN ParseFail
  ELSE IF what = "members"
       THEN Close(what, s, FirstNonWs(s, val.next),
                  [acc EXCEPT ![Len(acc)] = <<@[1], val.val>>])
       ELSE Close(what, s, FirstNonWs(s, val.next), Append(acc, val.val))

\* after a member or an element: "," and the next one, or the closing bracket
Close(what, s, e, all) ==
  IF e > Len(s) THEN ParseFail
  ELSE IF s[e] = "," THEN Parse(what, s, e + 1, all)
  ELSE IF what = "members" /\ s[e] = "}" THEN ParseOk([t |-> "obj", v |-> all], e + 1)
  ELSE IF what = "elements" /\ s[e] = "]" THEN ParseOk([t |-> "arr", v |-> all], e + 1)
  ELSE ParseFail

\* the text is one value and nothing but white space after it
WholeText(s, r) ==
  IF r.ok /\ FirstNonWs(s, r.next) = Len(s) + 1 THEN r ELSE ParseFail

\* JSON.parse(text): ok = FALSE stands for the SyntaxError it throws
JSONParse(s) == WholeText(s, Parse("value", s, 1, <<>>))

(***************************************************************************)
(* JavaScript property access, truthiness and the || chain on parsed data. *)
(***************************************************************************)
RECURSIVE LookupFrom(_, _, _)
LookupFrom(members, key, i) ==
  IF i < 1 THEN Undefined
  ELSE IF members[i][1] = key THEN members[i][2]
  ELSE LookupFrom(members, key, i - 1)

\* data.key on a non-null value: an object's member (the last one of that name),
\* undefined on every other value
Get(data, key) ==
  IF data.t = "obj" THEN LookupFrom(data.v, key, Len(data.v)) ELSE Undefined

\* ToBoolean
Truthy(val) ==
  CASE val.t = "str"  -> val.v # <<>>
    [] val.t = "num"  -> val.v # <<"0">>
    [] val.t = "bool" -> val.v = <<"true">>
    [] val.t \in {"null", "undefined"} -> FALSE
    [] OTHER -> TRUE

\* a || b
Or(a, b) == IF Truthy(a) THEN a ELSE b

KeyType == <<"t", "y", "p", "e">>
KeyAgentMessageId ==
  << "a", "g", "e", "n", "t", "_", "m", "e", "s", "s", "a", "g", "e", "_", "i", "d" >>
KeyResponse == <<"r", "e", "s", "p", "o", "n", "s", "e">>
KeyMessage == <<"m", "e", "s", "s", "a", "g", "e">>
KeyChunk == <<"c", "h", "u", "n", "k">>
KeyContent == <<"c", "o", "n", "t", "e", "n", "t">>
EndMetadata == Str(<<"e", "n", "d", "_", "m", "e", "t", "a", "d", "a", "t", "a">>)
DataPrefix == <<"d", "a", "t", "a", ":", " ">>
EventPrefix == <<"e", "v", "e", "n", "t", ":">>
IdPrefix == <<"i", "d", ":">>
DoneMarker == <<"[", "D", "O", "N", "E", "]">>
DataField == <<"d", "a", "t", "a", ":">>

(***************************************************************************)
(* The call's local state while decoding: cs.emitted is the sequence of    *)
(* onStreamChunk calls made so far and cs.agentMessageId the recorded id.  *)
(* History kept beside them: cs.line is the number of the line being       *)
(* processed (counted in the decoded text), cs.emittedLine the line each   *)
(* call was made for, cs.handled the lines that entered line processing    *)
(* and cs.doneAt the first line taken as the terminal marker (0: none).    *)
(* The caller's sink: cs.sink is the set of the call numbers at which      *)
(* onStreamChunk throws (empty: it never throws), and cs.threw says that   *)
(* an exception is on its way out of the code being run.                   *)
(***************************************************************************)
InitialCallState ==
  [emitted |-> <<>>, agentMessageId |-> Null, line |-> 1,
   emittedLine |-> <<>>, handled |-> <<>>, doneAt |-> 0,
   sink |-> {}, threw |-> FALSE]

\* the state of a call made with the sink that throws at the calls in sink
CallStateWith(sink) == [InitialCallState EXCEPT !.sink = sink]

\* an exception is thrown
Throw(cs) == [cs EXCEPT !.threw = TRUE]

\* history: the line cs.line enters line processing
Handled(cs) == [cs EXCEPT !.handled = Append(@, cs.line)]

\* history: the line cs.line is taken as the terminal marker
MarkDone(cs) == [cs EXCEPT !.doneAt = IF @ = 0 THEN cs.line ELSE @]

\* onStreamChunk(text): the sink is invoked, and it returns or throws
OnStreamChunk(cs, text) ==
  [cs EXCEPT !.emitted = Append(@, text), !.emittedLine = Append(@, cs.line),
             !.threw = (Len(cs.emitted) + 1) \in cs.sink]

\* a variant that keeps the first id: a recorded id is never overwritten
CaptureFirstAgentMessageId(cs, data) ==
  IF /\ cs.agentMessageId = Null
     /\ Get(data, KeyType) = EndMetadata
     /\ Truthy(Get(data, KeyAgentMessageId))
  THEN [cs EXCEPT !.agentMessageId = Get(data, KeyAgentMessageId)]
  ELSE cs

\* a variant that records the id of any event, whatever its type
CaptureAnyAgentMessageId(cs, data) ==
  IF Truthy(Get(data, KeyAgentMessageId))
  THEN [cs EXCEPT !.agentMessageId = Get(data, KeyAgentMessageId)]
  ELSE cs

\* if (data.type === "end_metadata" && data.agent_message_id) agentMessageId = ...
CaptureAgentMessageId(cs, data) ==
  IF Get(data, KeyType) = EndMetadata /\ Truthy(Get(data, KeyAgentMessageId))
  THEN [cs EXCEPT !.agentMessageId = Get(data, KeyAgentMessageId)]
  ELSE cs

\* the fields a data event's text is looked for in, in the order of the lookup
ChunkFields == <<KeyResponse, KeyMessage, KeyChunk, KeyContent>>

RECURSIVE FirstPresent(_, _, _)
\* the value of the first field, from the i-th on, that the object has
FirstPresent(data, fields, i) ==
  IF i > Len(fields) THEN Undefined
  ELSE IF Get(data, fields[i]) # Undefined THEN Get(data, fields[i])
       ELSE FirstPresent(data, fields, i + 1)

\* a variant that stops at the first field the event has, empty or not
SelectFirstPresent(data) == FirstPresent(data, ChunkFields, 1)

\* data.response || data.message || data.chunk || data.content || ""
SelectChunk(data) ==
  Or(Get(data, KeyResponse),
     Or(Get(data, KeyMessage),
        Or(Get(data, KeyChunk), Or(Get(data, KeyContent), Str(<<>>)))))

\* a variant of the catch block that only logs: no fallback emission
CatchParseErrorSilent(cs, dataContent) == cs

\* the catch block: the raw payload is the fallback emission
CatchParseError(cs, dataContent) ==
  IF Trim(dataContent) # <<>>
  THEN OnStreamChunk(cs, ReplaceEscapedNewlines(dataContent))
  ELSE cs

\* if (chunk) onStreamChunk(chunk.replace(...)): chunk.replace is no function
\* when chunk is no string, and the call throws a TypeError
EmitChunk(cs, chunk) ==
  IF ~Truthy(chunk) THEN cs
  ELSE IF chunk.t = "str" THEN OnStreamChunk(cs, ReplaceEscapedNewlines(chunk.v))
  ELSE Throw(cs)

\* the try block after JSON.parse: JSON.parse throws a SyntaxError, and reading
\* a property of null throws a TypeError
HandleParsed(cs, parsed) ==
  IF ~parsed.ok \/ parsed.val.t = "null" THEN Throw(cs)
  ELSE EmitChunk(CaptureAgentMessageId(cs, parsed.val), SelectChunk(parsed.val))

\* a try without its catch: what was thrown goes on
Uncaught(cs, dataContent) == cs

\* catch (parseError) { ... }: whatever the try block threw, the sink included,
\* is caught here; what the catch block throws goes on
Caught(cs, dataContent) ==
  IF cs.threw THEN CatchParseError([cs EXCEPT !.threw = FALSE], dataContent) ELSE cs

\* try { const data = JSON.parse(dataContent); ... } catch (parseError) { ... }
HandleDataContent(cs, dataContent) ==
  Caught(HandleParsed(cs, JSONParse(dataContent)), dataContent)

\* dataContent.includes("[DONE]")
IsDone(dataContent) == Includes(dataContent, DoneMarker)

\* a line that starts with "data: ": brk is the break on the terminal marker
ProcessData(cs, dataContent) ==
  IF IsDone(dataContent) THEN [cs |-> MarkDone(cs), brk |-> TRUE]
  ELSE [cs |-> HandleDataContent(cs, dataContent), brk |-> FALSE]

\* a line with line.trim() not empty
ProcessNonBlank(cs, line) ==
  IF StartsWith(line, DataPrefix) THEN ProcessData(cs, Substring(line, 6))
  ELSE IF ~StartsWith(line, EventPrefix) /\ ~StartsWith(line, IdPrefix)
       THEN [cs |-> OnStreamChunk(cs, ReplaceEscapedNewlines(line)), brk |-> FALSE]
       ELSE [cs |-> cs, brk |-> FALSE]

\* the body of the for loop over the complete lines
ProcessLine(cs, line) ==
  IF Trim(line) = <<>> THEN [cs |-> cs, brk |-> FALSE]
  ELSE ProcessNonBlank(Handled(cs), line)

RECURSIVE LinesDownFrom(_, _, _, _)
\* the lines j, j - 1, ..., 1 in that order, first the number of lines[1]
LinesDownFrom(cs, lines, j, first) ==
  IF j < 1 THEN cs
  ELSE LET r == ProcessLine([cs EXCEPT !.line = first + j - 1], lines[j])
       IN  IF r.brk THEN r.cs ELSE LinesDownFrom(r.cs, lines, j - 1, first)

\* a variant of the loop that takes the complete lines of a chunk last to first
ProcessLinesReversed(cs, lines, i) == LinesDownFrom(cs, lines, Len(lines), cs.line)

RECURSIVE ProcessLines(_, _, _)
RECURSIVE AfterLine(_, _, _)

\* for (const line of lines) { ... }
ProcessLines(cs, lines, i) ==
  IF i > Len(lines) THEN cs ELSE AfterLine(ProcessLine(cs, lines[i]), lines, i)

\* the break leaves the loop: the lines after it are dropped with the array;
\* so does an exception
AfterLine(r, lines, i) ==
  IF r.brk \/ r.cs.threw THEN r.cs ELSE ProcessLines([r.cs EXCEPT !.line = @ + 1], lines, i + 1)

\* a variant that carries nothing over: the last piece is thrown away
ProcessSplitNoCarry(cs, lines) ==
  [buffer |-> <<>>,
   cs     |-> [ProcessLines(cs, SubSeq(lines, 1, Len(lines) - 1), 1)
                 EXCEPT !.line = cs.line + Len(lines) - 1]]

\* const lines = buffer.split("\n"); buffer = lines.pop() || ""; for (...)
ProcessSplit(cs, lines) ==
  [buffer |-> lines[Len(lines)],
   cs     |-> [ProcessLines(cs, SubSeq(lines, 1, Len(lines) - 1), 1)
                 EXCEPT !.line = cs.line + Len(lines) - 1]]

\* one pass of the while loop after a successful read, text the decoded chunk
ProcessChunk(cs, buffer, text) == ProcessSplit(cs, Split(buffer \o text))

\* the buffer after the loop when it starts with "data: "
FlushData(cs, dataContent) ==
  IF IsDone(dataContent) THEN MarkDone(cs) ELSE HandleDataContent(cs, dataContent)

\* a variant without the code after the loop: the buffer is thrown away
ProcessBufferDropped(cs, buffer) == cs

\* a variant that passes the buffer on without looking at it
ProcessBufferAlways(cs, buffer) == OnStreamChunk(cs, ReplaceEscapedNewlines(buffer))

\* after the loop: if (buffer.trim()) { if (buffer.startsWith("data: ")) ... }
ProcessBuffer(cs, buffer) ==
  IF Trim(buffer) = <<>> THEN cs
  ELSE IF StartsWith(buffer, DataPrefix) THEN FlushData(Handled(cs), Substring(buffer, 6))
  ELSE Handled(cs)

\* if (responseText) onStreamChunk(responseText.replace(...)); return id.
\* responseText.replace is no function when responseText is no string
DocumentText(cs, responseText, id) ==
  IF ~Truthy(responseText) THEN [cs |-> cs, value |-> id]
  ELSE IF responseText.t = "str"
       THEN [cs |-> OnStreamChunk(cs, ReplaceEscapedNewlines(responseText.v)), value |-> id]
       ELSE [cs |-> Throw(cs), value |-> Null]

\* data.response || data.message || data.content || data, data.agent_message_id || null;
\* response.json() rejects when the body is no JSON, data.response throws on null
DocumentParsed(cs, parsed) ==
  IF ~parsed.ok \/ parsed.val.t = "null" THEN [cs |-> Throw(cs), value |-> Null]
  ELSE DocumentText(cs,
                    Or(Get(parsed.val, KeyResponse),
                       Or(Get(parsed.val, KeyMessage),
                          Or(Get(parsed.val, KeyContent), parsed.val))),
                    Or(Get(parsed.val, KeyAgentMessageId), Null))

\* the non-streaming branch: const data = await response.json(); ...
ProcessDocument(cs, text) == DocumentParsed(cs, JSONParse(text))

(***************************************************************************)
(* The response bodies.                                                    *)
(***************************************************************************)
\* data: [DONE]
LineDone ==
  << "d", "a", "t", "a", ":", " ", "[", "D", "O", "N", "E", "]" >>

\* data: {"content":"a"}
LineContentA ==
  << "d", "a", "t", "a", ":", " ", "{", QUOTE, "c", "o", "n", "t", "e", "n", "t", QUOTE, ":",
     QUOTE, "a", QUOTE, "}" >>

\* data: {"type":"end_metadata","agent_message_id":"A"}
LineMetaA ==
  << "d", "a", "t", "a", ":", " ", "{", QUOTE, "t", "y", "p", "e", QUOTE, ":", QUOTE, "e", "n",
     "d", "_", "m", "e", "t", "a", "d", "a", "t", "a", QUOTE, ",", QUOTE, "a", "g", "e", "n",
     "t", "_", "m", "e", "s", "s", "a", "g", "e", "_", "i", "d", QUOTE, ":", QUOTE, "A", QUOTE,
     "}" >>

\* data: {bad
LineBad ==
  << "d", "a", "t", "a", ":", " ", "{", "b", "a", "d" >>

\* hi
LinePlain ==
  << "h", "i" >>

\* data: {"type":"end_metadata","agent_message_id":"B"}
LineMetaB ==
  << "d", "a", "t", "a", ":", " ", "{", QUOTE, "t", "y", "p", "e", QUOTE, ":", QUOTE, "e", "n",
     "d", "_", "m", "e", "t", "a", "d", "a", "t", "a", QUOTE, ",", QUOTE, "a", "g", "e", "n",
     "t", "_", "m", "e", "s", "s", "a", "g", "e", "_", "i", "d", QUOTE, ":", QUOTE, "B", QUOTE,
     "}" >>

\* data: {"type":"end_metadata","agent_message_id":""}
LineMetaEmpty ==
  << "d", "a", "t", "a", ":", " ", "{", QUOTE, "t", "y", "p", "e", QUOTE, ":", QUOTE, "e", "n",
     "d", "_", "m", "e", "t", "a", "d", "a", "t", "a", QUOTE, ",", QUOTE, "a", "g", "e", "n",
     "t", "_", "m", "e", "s", "s", "a", "g", "e", "_", "i", "d", QUOTE, ":", QUOTE, QUOTE,
     "}" >>

\* data: {"type":"x","agent_message_id":"B"}
LineOtherTypeId ==
  << "d", "a", "t", "a", ":", " ", "{", QUOTE, "t", "y", "p", "e", QUOTE, ":", QUOTE, "x",
     QUOTE, ",", QUOTE, "a", "g", "e", "n", "t", "_", "m", "e", "s", "s", "a", "g", "e", "_",
     "i", "d", QUOTE, ":", QUOTE, "B", QUOTE, "}" >>

\* data: {"response":"x\\ny"}
LineResponseEscaped ==
  << "d", "a", "t", "a", ":", " ", "{", QUOTE, "r", "e", "s", "p", "o", "n", "s", "e", QUOTE,
     ":", QUOTE, "x", BS, BS, "n", "y", QUOTE, "}" >>

\* a\nb
LinePlainEscaped ==
  << "a", BS, "n", "b" >>

\* data: {b\n
LineBadEscaped ==
  << "d", "a", "t", "a", ":", " ", "{", "b", BS, "n" >>

\* data: {"response":"","content":"y"}
LineEmptyResponse ==
  << "d", "a", "t", "a", ":", " ", "{", QUOTE, "r", "e", "s", "p", "o", "n", "s", "e", QUOTE,
     ":", QUOTE, QUOTE, ",", QUOTE, "c", "o", "n", "t", "e", "n", "t", QUOTE, ":", QUOTE, "y",
     QUOTE, "}" >>

\* data: {"response":"x","content":"y"}
LineTwoFields ==
  << "d", "a", "t", "a", ":", " ", "{", QUOTE, "r", "e", "s", "p", "o", "n", "s", "e", QUOTE,
     ":", QUOTE, "x", QUOTE, ",", QUOTE, "c", "o", "n", "t", "e", "n", "t", QUOTE, ":", QUOTE,
     "y", QUOTE, "}" >>

\* data: {"content":"[DONE]"}
LineDoneInContent ==
  << "d", "a", "t", "a", ":", " ", "{", QUOTE, "c", "o", "n", "t", "e", "n", "t", QUOTE, ":",
     QUOTE, "[", "D", "O", "N", "E", "]", QUOTE, "}" >>

\* data: null
LineNull ==
  << "d", "a", "t", "a", ":", " ", "n", "u", "l", "l" >>

\* data: {"content":5}
LineNumberContent ==
  << "d", "a", "t", "a", ":", " ", "{", QUOTE, "c", "o", "n", "t", "e", "n", "t", QUOTE, ":",
     "5", "}" >>

\* data:x
LineDataNoSpace ==
  << "d", "a", "t", "a", ":", "x" >>

\* id:1
LineId ==
  << "i", "d", ":", "1" >>

\* event:x
LineEvent ==
  << "e", "v", "e", "n", "t", ":", "x" >>

\* (empty line)
LineEmpty == <<>>

\* ' '
LineBlank ==
  << " " >>

\* data: {"content":"é"}
LineMultiByte ==
  << "d", "a", "t", "a", ":", " ", "{", QUOTE, "c", "o", "n", "t", "e", "n", "t", QUOTE, ":",
     QUOTE, "C3", "A9", QUOTE, "}" >>

\* data: 
LineDataOnly ==
  << "d", "a", "t", "a", ":", " " >>

\* {"response":"r\\ns","agent_message_id":"A"}
LineDocument ==
  << "{", QUOTE, "r", "e", "s", "p", "o", "n", "s", "e", QUOTE, ":", QUOTE, "r", BS, BS, "n",
     "s", QUOTE, ",", QUOTE, "a", "g", "e", "n", "t", "_", "m", "e", "s", "s", "a", "g", "e",
     "_", "i", "d", QUOTE, ":", QUOTE, "A", QUOTE, "}" >>

\* {"agent_message_id":"A"}
DocNoText ==
  << "{", QUOTE, "a", "g", "e", "n", "t", "_", "m", "e", "s", "s", "a", "g", "e", "_", "i",
     "d", QUOTE, ":", QUOTE, "A", QUOTE, "}" >>

\* {"message":"m"}
DocMessage ==
  << "{", QUOTE, "m", "e", "s", "s", "a", "g", "e", QUOTE, ":", QUOTE, "m", QUOTE, "}" >>

\* null
DocNull ==
  << "n", "u", "l", "l" >>

\* the lines that may stand, one after the other, before the last line of a body
HeadLines == {LineDone, LineContentA, LineBad}

\* the lines a body may end with
TailLines ==
  HeadLines \cup
  {LineMetaA, LinePlain, LineMetaB, LineMetaEmpty, LineOtherTypeId, LineResponseEscaped,
   LinePlainEscaped, LineBadEscaped, LineEmptyResponse, LineTwoFields, LineDoneInContent,
   LineNull, LineNumberContent, LineDataNoSpace, LineId, LineEvent, LineEmpty, LineBlank,
   LineMultiByte, LineDataOnly, LineDocument}

MaxHead == 1

RECURSIVE Heads(_)
\* every run of at most n head lines, each ended by a newline
Heads(n) ==
  IF n = 0 THEN {<<>>}
  ELSE Heads(n - 1) \cup {h \o l \o <<LF>> : h \in Heads(n - 1), l \in HeadLines}

\* bodies that are one JSON document
Documents == {LineDocument, DocNoText, DocMessage, DocNull}

\* the ends of a body: a last line with or without its newline
Tails == {l \o e : l \in TailLines, e \in {<<>>, <<LF>>}}

\* bodies that start with an end_metadata event
MetaBodies == {LineMetaA \o <<LF>> \o t : t \in Tails}

Bodies ==
  {<<>>} \cup Documents \cup MetaBodies \cup {h \o t : h \in Heads(MaxHead), t \in Tails}

\* the bodies answered to the wrappers other than callChatAPI
WrapperBodies == {<<>>, LineDocument, LinePlain}

\* the bodies of two calls that run side by side: none holds a terminal marker
PairBodies ==
  {LineContentA \o <<LF>> \o LinePlain \o <<LF>>,
   LineBad \o <<LF>> \o LineContentA,
   LineMetaA \o <<LF>>}

(***************************************************************************)
(* The data-fetching wrappers and what they throw.                         *)
(***************************************************************************)
ChatAPI == "callChatAPI"

Wrappers ==
  {ChatAPI, "fetchAnalytics", "fetchHubSpotSessions", "sendFeedback",
   "sendHubSpotInteraction"}

\* the wrappers that return the JSON document of the response
DataWrappers == {"fetchAnalytics", "fetchHubSpotSessions"}

\* the wrappers that return nothing
PostWrappers == {"sendFeedback", "sendHubSpotInteraction"}

\* the path each wrapper requests
Endpoint(api) ==
  CASE api = ChatAPI                  -> "/api/lyzr/router"
    [] api = "fetchAnalytics"         -> "/api/lyzr/analytics"
    [] api = "fetchHubSpotSessions"   -> "/api/lyzr/hubspot-sessions"
    [] api = "sendFeedback"           -> "/api/lyzr/feedback"
    [] api = "sendHubSpotInteraction" -> "/api/lyzr/hubspot-interaction"

ErrorMessage == "Failed to get response from chat API"

\* the message of the error each wrapper's catch block throws
FailureMessage(api) ==
  CASE api = ChatAPI                  -> ErrorMessage
    [] api = "fetchAnalytics"         -> "Failed to fetch analytics data"
    [] api = "fetchHubSpotSessions"   -> "Failed to fetch HubSpot sessions data"
    [] api = "sendFeedback"           -> "Failed to send feedback"
    [] api = "sendHubSpotInteraction" -> "Failed to send HubSpot interaction"

\* new Error(message): the built-in error, which has no endpoint property
NewError(message) ==
  [t |-> "error", v |-> [name |-> "Error", message |-> message, endpoint |-> Undefined]]

\* what the transport does to a call: fetch rejects, the status is no success (500 or
\* 404), the
\* response is a success with a JSON content type, the response has no body, the
\* response streams
Transports == {"network", "status", "status404", "json", "nobody", "stream"}

\* the transports with a status that is no success
FailedStatuses == {"status", "status404"}

\* the sink of the caller never throws
QuietSinks == {{}}

MaxThrow == 2

\* the sinks that throw at some of their first MaxThrow invocations
ThrowingSinks == (SUBSET (1..MaxThrow)) \ {{}}

\* no second call
IdleCall ==
  [pc |-> "idle", body |-> <<>>, pos |-> 0, lead |-> FALSE, buffer |-> <<>>,
   cs |-> InitialCallState, result |-> Null]

\* a second call about to open its stream
SecondCall(bytes) == [IdleCall EXCEPT !.pc = "fetch", !.body = bytes]

(***************************************************************************)
(* The pages and helpers around the calls, each at rest: the scroll state  *)
(* handleScroll works on, the request fetchAnalytics and                   *)
(* fetchHubSpotSessions build, the ChatHistory page and the Home page.     *)
(***************************************************************************)
\* useState(false), useRef(null) (0: no timer id), no timer set, no call made
IdleScroll ==
  [isScrolling |-> FALSE, current |-> 0, timers |-> {}, now |-> 0,
   lastCall |-> 0, duration |-> 0, calls |-> 0]

\* no request built
IdleQuery == [built |-> FALSE]

\* the page is not mounted
IdleHistory == [mounted |-> FALSE]
IdleHome == [mounted |-> FALSE]

VARIABLES api, pc, transport, body, pos, lead, buffer, cs, result, other,
          scroll, query, history, home

callVars == <<api, pc, transport, body, pos, lead, buffer, cs, result, other>>
pageVars == <<scroll, query, history, home>>
vars == <<callVars, pageVars>>

PagesIdle ==
  /\ scroll = IdleScroll
  /\ query = IdleQuery
  /\ history = IdleHistory
  /\ home = IdleHome

\* no call is made
CallsIdle ==
  /\ api = ChatAPI
  /\ pc = "idle"
  /\ transport = "stream"
  /\ body = <<>>
  /\ pos = 0
  /\ lead = FALSE
  /\ buffer = <<>>
  /\ cs = InitialCallState
  /\ result = Null
  /\ other = IdleCall

\* one call of a wrapper, made with a sink of sinks
InitWith(sinks) ==
  /\ api \in Wrappers
  /\ pc = "fetch"
  /\ transport \in Transports
  /\ body \in Bodies
  /\ api = ChatAPI \/ (transport \in {"network", "status", "status404", "json"}
                       /\ body \in WrapperBodies)
  /\ pos = 0
  /\ lead = FALSE
  /\ buffer = <<>>
  /\ cs \in {CallStateWith(sink) : sink \in sinks}
  /\ result = Null
  /\ other = IdleCall
  /\ PagesIdle

Init == InitWith(QuietSinks)

\* the status of a response that is no success
StatusCode == IF transport = "status404" THEN 404 ELSE 500

\* what the try block threw, by the place the call stands at: the rejection of fetch,
\* the Error made from the status, the Error for the missing reader, or whatever the
\* read, response.json() or the sink threw
Cause ==
  IF pc = "read" THEN <<"read">>
  ELSE CASE transport = "network" -> <<"TypeError", "Failed to fetch">>
         [] transport \in FailedStatuses -> <<api, "request failed with status", StatusCode>>
         [] transport = "nobody" -> <<"No response body reader available">>
         [] OTHER -> <<"response.json">>

\* a variant of the catch block that throws what it caught
RethrowCause(wrapper, cause) == NewError(cause)

\* catch (error) { console.error(..., error); throw new Error("Failed to ...") }
Rethrow(wrapper, cause) == NewError(FailureMessage(wrapper))

\* the call ends in the outer catch block
Reject ==
  /\ pc' = "rejected"
  /\ result' = Rethrow(api, Cause)

\* await fetch(...) rejects
FetchFails ==
  /\ pc = "fetch" /\ transport = "network"
  /\ Reject
  /\ UNCHANGED <<api, transport, body, pos, lead, buffer, cs, other>>
  /\ UNCHANGED pageVars

\* if (!response.ok) throw
StatusNotOk ==
  /\ pc = "fetch" /\ transport \in FailedStatuses
  /\ Reject
  /\ UNCHANGED <<api, transport, body, pos, lead, buffer, cs, other>>
  /\ UNCHANGED pageVars

\* const data = await response.json(); return data
DataParsed(parsed) ==
  IF parsed.ok THEN pc' = "returned" /\ result' = parsed.val ELSE Reject

\* fetchAnalytics, fetchHubSpotSessions: the response is a success
DataResponse ==
  /\ pc = "fetch" /\ transport = "json" /\ api \in DataWrappers
  /\ DataParsed(JSONParse(DecodeAll(body)))
  /\ UNCHANGED <<api, transport, body, pos, lead, buffer, cs, other>>
  /\ UNCHANGED pageVars

\* sendFeedback, sendHubSpotInteraction: the response is a success
PostDone ==
  /\ pc = "fetch" /\ transport = "json" /\ api \in PostWrappers
  /\ pc' = "returned"
  /\ result' = Undefined
  /\ UNCHANGED <<api, transport, body, pos, lead, buffer, cs, other>>
  /\ UNCHANGED pageVars

\* the non-streaming branch ends: the call returns the id or rejects
DocumentDone(r) ==
  /\ cs' = r.cs
  /\ IF r.cs.threw THEN Reject ELSE pc' = "returned" /\ result' = r.value

\* content-type includes application/json
JsonResponse ==
  /\ pc = "fetch" /\ transport = "json" /\ api = ChatAPI
  /\ DocumentDone(ProcessDocument(cs, DecodeAll(body)))
  /\ UNCHANGED <<api, transport, body, pos, lead, buffer, other>>
  /\ UNCHANGED pageVars

\* a variant that goes on to the read loop without a reader
NoReaderIgnored ==
  /\ pc = "fetch" /\ transport = "nobody" /\ api = ChatAPI
  /\ pc' = "read"
  /\ UNCHANGED <<api, transport, body, pos, lead, buffer, cs, result, other>>
  /\ UNCHANGED pageVars

\* response.body?.getReader() is undefined
NoReader ==
  /\ pc = "fetch" /\ transport = "nobody" /\ api = ChatAPI
  /\ Reject
  /\ UNCHANGED <<api, transport, body, pos, lead, buffer, cs, other>>
  /\ UNCHANGED pageVars

\* the reader is there: buffer = "", agentMessageId = null, enter the loop
OpenStream ==
  /\ pc = "fetch" /\ transport = "stream" /\ api = ChatAPI
  /\ pc' = "read"
  /\ buffer' = <<>>
  /\ cs' = CallStateWith(cs.sink)
  /\ UNCHANGED <<api, transport, body, pos, lead, result, other>>
  /\ UNCHANGED pageVars

\* the lines of a chunk have been processed; an exception that left the loop is
\* caught by the outer catch
ChunkDone(r) ==
  /\ buffer' = r.buffer
  /\ cs' = r.cs
  /\ IF r.cs.threw THEN Reject ELSE UNCHANGED <<pc, result>>

\* buffer += decoder.decode(value, {stream: true}); ...
Decoded(d) ==
  /\ lead' = d.pending
  /\ ChunkDone(ProcessChunk(cs, buffer, d.text))

\* reader.read() yields the next n bytes of the body
ReadChunk(n) ==
  /\ pc = "read"
  /\ pos + n <= Len(body)
  /\ Decoded(DecodeStream(SubSeq(body, pos + 1, pos + n), lead))
  /\ pos' = pos + n
  /\ UNCHANGED <<api, transport, body, other>>
  /\ UNCHANGED pageVars

\* after the loop: the buffer has been looked at, return agentMessageId
Flushed(after) ==
  /\ cs' = after
  /\ IF after.threw THEN Reject ELSE pc' = "returned" /\ result' = after.agentMessageId

\* reader.read() yields done: leave the loop, look at the buffer, return
ReadDone ==
  /\ pc = "read"
  /\ pos = Len(body)
  /\ Flushed(ProcessBuffer(cs, buffer))
  /\ UNCHANGED <<api, transport, body, pos, lead, buffer, other>>
  /\ UNCHANGED pageVars

\* a variant of a failing read that looks at the buffer before it rejects
ReadFailsFlushes ==
  /\ pc = "read"
  /\ Reject
  /\ cs' = ProcessBuffer(cs, buffer)
  /\ UNCHANGED <<api, transport, body, pos, lead, buffer, other>>
  /\ UNCHANGED pageVars

\* reader.read() rejects
ReadFails ==
  /\ pc = "read"
  /\ Reject
  /\ UNCHANGED <<api, transport, body, pos, lead, buffer, cs, other>>
  /\ UNCHANGED pageVars

Next ==
  \/ FetchFails
  \/ StatusNotOk
  \/ DataResponse
  \/ PostDone
  \/ JsonResponse
  \/ NoReader
  \/ OpenStream
  \/ \E n \in 1..(Len(body) - pos) : ReadChunk(n)
  \/ ReadDone
  \/ ReadFails

Spec == Init /\ [][Next]_vars

(***************************************************************************)
(* The same call made with a sink that throws.                             *)
(***************************************************************************)
InitSink == InitWith(ThrowingSinks)

SpecSink == InitSink /\ [][Next]_vars

(***************************************************************************)
(* Two callChatAPI calls over two streams, interleaved at their reads.     *)
(* Each call has its own reader, decoder, buffer and agentMessageId: they  *)
(* are locals of the call.                                                 *)
(***************************************************************************)
\* a variant with one buffer for all the calls, kept outside the function
SharedBuffer == buffer

\* the buffer the second call appends to: let buffer = "" is a local of the call
OtherBuffer == other.buffer

InitPair ==
  /\ api = ChatAPI
  /\ pc = "fetch"
  /\ transport = "stream"
  /\ body \in PairBodies
  /\ pos = 0
  /\ lead = FALSE
  /\ buffer = <<>>
  /\ cs = InitialCallState
  /\ result = Null
  /\ other \in {SecondCall(bytes) : bytes \in PairBodies}
  /\ PagesIdle

\* the second call enters its loop
OtherOpenStream ==
  /\ other.pc = "fetch"
  /\ other' = [other EXCEPT !.pc = "read", !.buffer = <<>>, !.cs = InitialCallState]
  /\ UNCHANGED <<api, pc, transport, body, pos, lead, buffer, cs, result>>
  /\ UNCHANGED pageVars

\* the second call has processed the lines of a chunk of n bytes
OtherChunkDone(r, pending, n) ==
  other' = [other EXCEPT !.buffer = r.buffer, !.cs = r.cs, !.lead = pending,
                         !.pos = @ + n]

OtherDecoded(d, with, n) ==
  OtherChunkDone(ProcessChunk(other.cs, with, d.text), d.pending, n)

\* reader.read() of the second call yields the next n bytes of its body
OtherReadChunk(n) ==
  /\ other.pc = "read"
  /\ other.pos + n <= Len(other.body)
  /\ OtherDecoded(DecodeStream(SubSeq(other.body, other.pos + 1, other.pos + n),
                               other.lead),
                  OtherBuffer, n)
  /\ UNCHANGED <<api, pc, transport, body, pos, lead, buffer, cs, result>>
  /\ UNCHANGED pageVars

OtherFlushed(after) ==
  other' = [other EXCEPT !.cs = after, !.pc = "returned", !.result = after.agentMessageId]

\* reader.read() of the second call yields done
OtherReadDone ==
  /\ other.pc = "read"
  /\ other.pos = Len(other.body)
  /\ OtherFlushed(ProcessBuffer(other.cs, OtherBuffer))
  /\ UNCHANGED <<api, pc, transport, body, pos, lead, buffer, cs, result>>
  /\ UNCHANGED pageVars

NextPair ==
  \/ OpenStream
  \/ \E n \in 1..(Len(body) - pos) : ReadChunk(n)
  \/ ReadDone
  \/ OtherOpenStream
  \/ \E n \in 1..(Len(other.body) - other.pos) : OtherReadChunk(n)
  \/ OtherReadDone

SpecPair == InitPair /\ [][NextPair]_vars

(***************************************************************************)
(* handleScroll, called any number of times with one scrollTimeout ref and *)
(* one setIsScrolling, under a clock: a timer set by setTimeout fires no   *)
(* earlier than its delay, and may fire late.                              *)
(***************************************************************************)
MaxCalls == 3
MaxClock == 4
MaxDuration == 2

\* a variant that leaves the timer of the previous call pending
KeepTimeout(timers, id) == timers

\* if (scrollTimeout.current) { clearTimeout(scrollTimeout.current); }
ClearTimeout(timers, id) ==
  IF id # 0 THEN {t \in timers : t.id # id} ELSE timers

\* setTimeout(() => { setIsScrolling(false); }, timeoutDuration): the new timer
SetTimeout(id, now, timeoutDuration) == [id |-> id, due |-> now + timeoutDuration]

\* handleScroll(setIsScrolling, scrollTimeout, timeoutDuration)
HandleScroll(timeoutDuration) ==
  /\ scroll.calls < MaxCalls
  /\ scroll' =
       [scroll EXCEPT
          !.isScrolling = TRUE,
          !.timers = ClearTimeout(scroll.timers, scroll.current)
                       \cup {SetTimeout(scroll.calls + 1, scroll.now, timeoutDuration)},
          !.current = scroll.calls + 1,
          !.lastCall = scroll.now,
          !.duration = timeoutDuration,
          !.calls = scroll.calls + 1]
  /\ UNCHANGED <<callVars, query, history, home>>

\* a millisecond passes
Tick ==
  /\ scroll.now < MaxClock
  /\ scroll' = [scroll EXCEPT !.now = scroll.now + 1]
  /\ UNCHANGED <<callVars, query, history, home>>

\* the callback of a timer that is due: setIsScrolling(false)
TimerFires(t) ==
  /\ t.due <= scroll.now
  /\ scroll' = [scroll EXCEPT !.isScrolling = FALSE, !.timers = scroll.timers \ {t}]
  /\ UNCHANGED <<callVars, query, history, home>>

InitScroll ==
  /\ CallsIdle
  /\ scroll = IdleScroll
  /\ query = IdleQuery
  /\ history = IdleHistory
  /\ home = IdleHome

NextScroll ==
  \/ \E timeoutDuration \in 1..MaxDuration : HandleScroll(timeoutDuration)
  \/ Tick
  \/ \E t \in scroll.timers : TimerFires(t)

SpecScroll == InitScroll /\ [][NextScroll]_vars

(***************************************************************************)
(* The request of fetchAnalytics and fetchHubSpotSessions: the dates of    *)
(* the JavaScript Date (months count from 0, a day or month out of range   *)
(* carries over), the range of a time filter, the query object and the     *)
(* URL. The date of today, the time zone and the parameters are inputs.    *)
(***************************************************************************)
IsLeap(y) == (y % 4 = 0 /\ y % 100 # 0) \/ y % 400 = 0

DaysInMonth(y, m) ==
  IF m = 1 THEN (IF IsLeap(y) THEN 29 ELSE 28)
  ELSE IF m \in {3, 5, 8, 10} THEN 30 ELSE 31

RECURSIVE MakeDate(_, _, _)
\* the date the Date object holds for year y, month m, day d: what is out of range
\* carries over into the month or the year next to it
MakeDate(y, m, d) ==
  IF m > 11 THEN MakeDate(y + 1, m - 12, d)
  ELSE IF m < 0 THEN MakeDate(y - 1, m + 12, d)
  ELSE IF d < 1 THEN
         (IF m = 0 THEN MakeDate(y - 1, 11, d + 31)
          ELSE MakeDate(y, m - 1, d + DaysInMonth(y, m - 1)))
  ELSE IF d > DaysInMonth(y, m) THEN MakeDate(y, m + 1, d - DaysInMonth(y, m))
  ELSE [y |-> y, m |-> m, d |-> d]

MonthOffsets == <<0, 3, 2, 5, 0, 3, 5, 1, 4, 6, 2, 4>>

\* date.getDay(): 0 is Sunday
GetDay(date) ==
  LET y == IF date.m < 2 THEN date.y - 1 ELSE date.y
  IN (y + (y \div 4) - (y \div 100) + (y \div 400) + MonthOffsets[date.m + 1] + date.d) % 7

\* date.setDate(d), date.setMonth(m)
SetDate(date, d) == MakeDate(date.y, date.m, d)
SetMonth(date, m) == MakeDate(date.y, m, date.d)

FilterToday == Str(<<"t", "o", "d", "a", "y">>)
FilterWeek == Str(<<"w", "e", "e", "k">>)
FilterMonth == Str(<<"m", "o", "n", "t", "h">>)

\* startDate and endDate after the switch, in local calendar terms
LocalRange(timeFilter, now) ==
  CASE timeFilter = FilterWeek ->
         [startDate |-> SetDate(now, now.d - GetDay(now)), endDate |-> now]
    [] timeFilter = FilterMonth ->
         [startDate |-> SetDate(now, 1),
          endDate   |-> SetDate(SetMonth(now, now.m + 1), 0)]
    [] OTHER -> [startDate |-> now, endDate |-> now]

DecimalDigits == <<"0", "1", "2", "3", "4", "5", "6", "7", "8", "9">>
TwoDigits(n) == <<DecimalDigits[(n \div 10) + 1], DecimalDigits[(n % 10) + 1]>>

\* the local clock against UTC
Zones == {"behind", "utc", "ahead"}

\* date.toISOString().split("T")[0] of a local date at the hours set: the date in
\* UTC, a day before the local one at 00:00 when the local clock is ahead of UTC, a
\* day after it at 23:59:59.999 when the local clock is behind
ToISODate(date, shift) ==
  LET utc == MakeDate(date.y, date.m, date.d + shift)
  IN Str(TwoDigits(utc.y \div 100) \o TwoDigits(utc.y % 100) \o <<"-">>
         \o TwoDigits(utc.m + 1) \o <<"-">> \o TwoDigits(utc.d))

StartShift(zone) == IF zone = "ahead" THEN 0 - 1 ELSE 0
EndShift(zone) == IF zone = "behind" THEN 1 ELSE 0

\* getDateRangeFromFilter(timeFilter)
GetDateRangeFromFilter(timeFilter, now, zone) ==
  [start_date |-> ToISODate(LocalRange(timeFilter, now).startDate, StartShift(zone)),
   end_date   |-> ToISODate(LocalRange(timeFilter, now).endDate, EndShift(zone))]

KeyStartDate == <<"s", "t", "a", "r", "t", "_", "d", "a", "t", "e">>
KeyEndDate == <<"e", "n", "d", "_", "d", "a", "t", "e">>

\* obj[key] = value on an object held as the sequence of its entries
SetKey(obj, key, value) ==
  IF \E i \in 1..Len(obj) : obj[i].key = key
  THEN [i \in 1..Len(obj) |->
          IF obj[i].key = key THEN [key |-> key, value |-> value] ELSE obj[i]]
  ELSE Append(obj, [key |-> key, value |-> value])

\* a variant that takes the preset whenever a time filter is given
UsesPresetAlways(params) == Truthy(params.timeFilter)

\* params.timeFilter && !params.start_date && !params.end_date
UsesPreset(params) ==
  /\ Truthy(params.timeFilter)
  /\ ~Truthy(params.start_date)
  /\ ~Truthy(params.end_date)

\* if (params.start_date) queryParams.start_date = params.start_date; ...
CustomParams(params) ==
  LET withStart == IF Truthy(params.start_date)
                   THEN SetKey(<<>>, KeyStartDate, params.start_date) ELSE <<>>
  IN IF Truthy(params.end_date)
     THEN SetKey(withStart, KeyEndDate, params.end_date) ELSE withStart

\* the queryParams object the wrapper hands to buildQueryString
QueryParams(params, now, zone) ==
  IF UsesPreset(params)
  THEN SetKey(SetKey(CustomParams(params), KeyStartDate,
                     GetDateRangeFromFilter(params.timeFilter, now, zone).start_date),
              KeyEndDate,
              GetDateRangeFromFilter(params.timeFilter, now, zone).end_date)
  ELSE CustomParams(params)

RECURSIVE Join(_)
\* searchParams.toString(): key=value joined by &; the dates hold no character that
\* is escaped
Join(entries) ==
  IF entries = <<>> THEN <<>>
  ELSE entries[1].key \o <<"=">> \o entries[1].value.v
       \o (IF Len(entries) > 1 THEN <<"&">> \o Join(Tail(entries)) ELSE <<>>)

\* buildQueryString(params)
BuildQueryString(obj) ==
  Join(SelectSeq(obj, LAMBDA e : e.value # Undefined /\ e.value # Str(<<>>)))

\* `${API_BASE_URL}${path}${queryString ? `?${queryString}` : ""}`
Url(path, queryString) ==
  [path |-> path, search |-> IF queryString # <<>> THEN <<"?">> \o queryString ELSE <<>>]

CustomStart == Str(<<"2", "0", "2", "4", "-", "0", "1", "-", "0", "5">>)
CustomEnd == Str(<<"2", "0", "2", "4", "-", "0", "1", "-", "2", "0">>)

\* the params a caller passes: each date left out, empty or given; the filter left
\* out or one of the three
ParamSets ==
  [start_date : {Undefined, Str(<<>>), CustomStart},
   end_date   : {Undefined, Str(<<>>), CustomEnd},
   timeFilter : {Undefined, FilterToday, FilterWeek, FilterMonth}]

\* the days the call is made on: the first, the middle and the last days of every
\* month of a leap year and of the year after it
Years == {2024, 2025}
MonthDays == {1, 15, 28, 29, 30, 31}
Todays ==
  {t \in [y : Years, m : 0..11, d : MonthDays] : t.d <= DaysInMonth(t.y, t.m)}

\* the wrapper builds its URL, then calls fetch
BuildUrl ==
  /\ pc = "url"
  /\ pc' = "fetch"
  /\ query' =
       [query EXCEPT
          !.built = TRUE,
          !.url = Url(Endpoint(api),
                      BuildQueryString(QueryParams(query.params, query.now, query.zone))),
          !.range = IF UsesPreset(query.params)
                    THEN LocalRange(query.params.timeFilter, query.now) ELSE <<>>]
  /\ UNCHANGED <<api, transport, body, pos, lead, buffer, cs, result, other>>
  /\ UNCHANGED <<scroll, history, home>>

InitQuery ==
  /\ api \in DataWrappers
  /\ pc = "url"
  /\ transport \in {"network", "status", "json"}
  /\ body \in {LineDocument, LinePlain}
  /\ transport = "json" \/ body = LineDocument
  /\ pos = 0
  /\ lead = FALSE
  /\ buffer = <<>>
  /\ cs = InitialCallState
  /\ result = Null
  /\ other = IdleCall
  /\ query \in [built : {FALSE}, now : Todays, zone : Zones, params : ParamSets,
                url : {Url("", <<>>)}, range : {<<>>}]
  /\ scroll = IdleScroll
  /\ history = IdleHistory
  /\ home = IdleHome

NextQuery ==
  \/ BuildUrl
  \/ FetchFails
  \/ StatusNotOk
  \/ DataResponse

SpecQuery == InitQuery /\ [][NextQuery]_vars

(***************************************************************************)
(* The ChatHistory page: the session of the URL, the selection, the chat   *)
(* shown, and the chat-history requests in flight. A request settles at    *)
(* any time after it was started, with a success or a failure; React runs  *)
(* the effect on sessionId before it handles the next event. A session id  *)
(* that is null or undefined and an error that is null are held as "".     *)
(***************************************************************************)
MaxRequests == 4

Sessions == {"s1", "s2"}

HubSpotFilled == Str(<<"f", "i", "l", "l", "e", "d">>)

\* the body the backend answers a chat-history request for a session with
ChatHistoryResponse(sessionId) ==
  [session_id |-> sessionId,
   hubspot_interaction |-> IF sessionId = "s1" THEN HubSpotFilled ELSE Null,
   messages |-> <<[message_id |-> sessionId, role |-> "user"]>>]

\* useState(...) of the page at the URL with the session id sessionId; no effect
\* has run
Mounted(sessionId) ==
  [mounted |-> TRUE, sessionId |-> sessionId, effectRanFor |-> "unmounted",
   selectedSessionId |-> sessionId, chatHistory |-> <<>>,
   hubspotInteraction |-> Null, loadingChat |-> FALSE, error |-> "",
   inFlight |-> {}, started |-> 0]

\* fetchChatHistory(sessionId) up to its await: setLoadingChat(true); setError(null);
\* fetch(...)
FetchChatHistory(page, sessionId) ==
  [page EXCEPT
     !.loadingChat = TRUE,
     !.error = "",
     !.inFlight = page.inFlight \cup {[id |-> page.started + 1, sessionId |-> sessionId]},
     !.started = page.started + 1]

\* the effect on [sessionId] has run for the session id of the URL
EffectsFlushed == history.mounted /\ history.effectRanFor = history.sessionId

\* handleSessionClick(sessionId)
HandleSessionClick(sessionId) ==
  /\ EffectsFlushed
  /\ history.started < MaxRequests
  /\ history' =
       [FetchChatHistory([history EXCEPT !.selectedSessionId = sessionId], sessionId)
          EXCEPT !.sessionId = sessionId]
  /\ UNCHANGED <<callVars, scroll, query, home>>

\* useEffect(() => { if (sessionId) { ... } }, [sessionId])
SessionIdEffect ==
  /\ history.mounted
  /\ history.effectRanFor # history.sessionId
  /\ history.sessionId # "" => history.started < MaxRequests
  /\ history' =
       [(IF history.sessionId # ""
         THEN FetchChatHistory(
                [history EXCEPT !.selectedSessionId = history.sessionId],
                history.sessionId)
         ELSE history)
          EXCEPT !.effectRanFor = history.sessionId]
  /\ UNCHANGED <<callVars, scroll, query, home>>

\* the URL changes without a click on a session: back, forward, a link
UrlChange(sessionId) ==
  /\ EffectsFlushed
  /\ sessionId # history.sessionId
  /\ history' = [history EXCEPT !.sessionId = sessionId]
  /\ UNCHANGED <<callVars, scroll, query, home>>

\* fetchChatHistory after its await when the response is a success, with finally
ChatHistoryLoaded(request) ==
  /\ EffectsFlushed
  /\ history' =
       [history EXCEPT
          !.chatHistory = ChatHistoryResponse(request.sessionId).messages,
          !.hubspotInteraction = ChatHistoryResponse(request.sessionId).hubspot_interaction,
          !.loadingChat = FALSE,
          !.inFlight = history.inFlight \ {request}]
  /\ UNCHANGED <<callVars, scroll, query, home>>

\* fetchChatHistory after its await when the request fails: catch, then finally
ChatHistoryFailed(request) ==
  /\ EffectsFlushed
  /\ history' =
       [history EXCEPT
          !.error = "Failed to load chat history",
          !.chatHistory = <<>>,
          !.hubspotInteraction = Null,
          !.loadingChat = FALSE,
          !.inFlight = history.inFlight \ {request}]
  /\ UNCHANGED <<callVars, scroll, query, home>>

InitHistory ==
  /\ CallsIdle
  /\ scroll = IdleScroll
  /\ query = IdleQuery
  /\ history \in {Mounted(sessionId) : sessionId \in Sessions \cup {""}}
  /\ home = IdleHome

NextHistory ==
  \/ \E sessionId \in Sessions : HandleSessionClick(sessionId)
  \/ SessionIdEffect
  \/ \E sessionId \in Sessions \cup {""} : UrlChange(sessionId)
  \/ \E request \in history.inFlight : ChatHistoryLoaded(request)
  \/ \E request \in history.inFlight : ChatHistoryFailed(request)

SpecHistory == InitHistory /\ [][NextHistory]_vars

(***************************************************************************)
(* The Home page: the filters, the three pieces of state the render looks  *)
(* at, and the analytics request in flight. The page shows its controls    *)
(* only when it is not loading, so one request is in flight at most. The   *)
(* date of today and the time zone are inputs; an error that is null is    *)
(* held as "".                                                             *)
(***************************************************************************)
TimeFilters == {FilterToday, FilterWeek, FilterMonth}

\* the first return of the render that applies
Screen(page) ==
  IF page.loading THEN "loading"
  ELSE IF page.error # "" THEN "error"
  ELSE IF page.analyticsData = Null THEN "empty"
  ELSE "dashboard"

\* params.toString() of fetchAnalytics of the page: the custom dates that are not
\* empty, then the dates of the time filter
HomeSearch(filters, now, zone) ==
  Join((IF Truthy(filters.start_date)
        THEN <<[key |-> KeyStartDate, value |-> filters.start_date]>> ELSE <<>>)
       \o (IF Truthy(filters.end_date)
           THEN <<[key |-> KeyEndDate, value |-> filters.end_date]>> ELSE <<>>)
       \o <<[key |-> KeyStartDate,
             value |-> GetDateRangeFromFilter(filters.timeFilter, now, zone).start_date],
            [key |-> KeyEndDate,
             value |-> GetDateRangeFromFilter(filters.timeFilter, now, zone).end_date]>>)

\* useState(...) at the first render; the effect on [filters] has not run
HomeMounted(now, zone) ==
  [mounted |-> TRUE, now |-> now, zone |-> zone,
   filters |-> [timeFilter |-> FilterToday, start_date |-> Str(<<>>),
                end_date |-> Str(<<>>)],
   effectPending |-> TRUE,
   analyticsData |-> Null, loading |-> TRUE, error |-> "",
   inFlight |-> {}, lastSettled |-> "none"]

\* fetchAnalytics of the page up to its await: setLoading(true), the params, fetch
FetchAnalyticsStarts(page) ==
  [page EXCEPT
     !.loading = TRUE,
     !.inFlight = {HomeSearch(page.filters, page.now, page.zone)}]

\* useEffect(() => { fetchAnalytics(); }, [filters])
FiltersEffect ==
  /\ home.mounted
  /\ home.effectPending
  /\ home' = [FetchAnalyticsStarts(home) EXCEPT !.effectPending = FALSE]
  /\ UNCHANGED <<callVars, scroll, query, history>>

\* the Retry button of the error screen: onClick={fetchAnalytics}
Retry ==
  /\ home.mounted
  /\ ~home.effectPending
  /\ Screen(home) = "error"
  /\ home' = FetchAnalyticsStarts(home)
  /\ UNCHANGED <<callVars, scroll, query, history>>

\* a time filter button of the dashboard: setFilters({ ...filters, timeFilter })
SetTimeFilter(timeFilter) ==
  /\ home.mounted
  /\ ~home.effectPending
  /\ Screen(home) = "dashboard"
  /\ home' = [home EXCEPT !.filters.timeFilter = timeFilter, !.effectPending = TRUE]
  /\ UNCHANGED <<callVars, scroll, query, history>>

\* fetchAnalytics after its await when the response is a success, with finally
AnalyticsLoaded(search) ==
  /\ home' =
       [home EXCEPT
          !.analyticsData = [t |-> "obj", v |-> search],
          !.loading = FALSE,
          !.inFlight = {},
          !.lastSettled = "ok"]
  /\ UNCHANGED <<callVars, scroll, query, history>>

\* fetchAnalytics after its await when the request fails: catch, then finally
AnalyticsFailed(search) ==
  /\ home' =
       [home EXCEPT
          !.error = "Failed to load analytics data",
          !.loading = FALSE,
          !.inFlight = {},
          !.lastSettled = "failed"]
  /\ UNCHANGED <<callVars, scroll, query, history>>

InitHome ==
  /\ CallsIdle
  /\ scroll = IdleScroll
  /\ query = IdleQuery
  /\ history = IdleHistory
  /\ home \in {HomeMounted(now, zone) : now \in Todays, zone \in Zones}

NextHome ==
  \/ FiltersEffect
  \/ Retry
  \/ \E timeFilter \in TimeFilters : SetTimeFilter(timeFilter)
  \/ \E search \in home.inFlight : AnalyticsLoaded(search)
  \/ \E search \in home.inFlight : AnalyticsFailed(search)

SpecHome == InitHome /\ [][NextHome]_vars

(***************************************************************************)
(* What a streaming call is compared with: the decoded text of the whole   *)
(* body, its lines, and the call that receives the body as a single chunk. *)
(***************************************************************************)
Text == DecodeStream(body, FALSE).text

StreamLines == Split(Text)

\* the buffer is looked at after the only chunk
WholeFlush(r) == ProcessBuffer(r.cs, r.buffer)

\* the call state at the return when the bytes arrive in one read and the next
\* read signals done
WholeRun(bytes) ==
  IF bytes = <<>> THEN ProcessBuffer(InitialCallState, <<>>)
  ELSE WholeFlush(ProcessChunk(InitialCallState, <<>>, DecodeStream(bytes, FALSE).text))

Streamed == api = ChatAPI /\ transport = "stream"
Returned == pc = "returned" /\ Streamed

\* the payload of a line that starts with "data: "
Payload(line) == Substring(line, 6)

\* a data event: a line with the prefix "data: " that is not taken as the marker
IsDataEvent(line) == StartsWith(line, DataPrefix) /\ ~IsDone(Payload(line))

\* the lines for which onStreamChunk was called
EmittedFor(k) == {i \in 1..Len(cs.emittedLine) : cs.emittedLine[i] = k}

(***************************************************************************)
(* C1: chunk-boundary invariance.  However the body is cut into chunks,    *)
(* the onStreamChunk calls and the returned id are those of the call that  *)
(* receives the same body as one chunk.                                    *)
(***************************************************************************)
C1_ChunkInvariance ==
  Returned =>
    /\ cs.emitted = WholeRun(body).emitted
    /\ result = WholeRun(body).agentMessageId

(***************************************************************************)
(* C2: once a line data: [DONE] has been processed, no reader.read() is    *)
(* issued any more and onStreamChunk is called for no line after the       *)
(* marker, be it in the same chunk, a later chunk or the final buffer.     *)
(***************************************************************************)
C2_NothingAfterDone ==
  (Streamed /\ cs.doneAt # 0) =>
    /\ pc # "read"
    /\ \A i \in 1..Len(cs.emittedLine) : cs.emittedLine[i] < cs.doneAt

(***************************************************************************)
(* C3: after a [DONE] data line the call returns even if the stream never  *)
(* signals done: it is never left waiting for a read when the marker has   *)
(* been processed and the producer has nothing more to send.               *)
(***************************************************************************)
C3_ReturnsOnDone ==
  ~(Streamed /\ cs.doneAt # 0 /\ pc = "read" /\ pos = Len(body))

(***************************************************************************)
(* C4: last write wins.  The returned id is the agent_message_id of the    *)
(* last processed end_metadata data event whose agent_message_id is not    *)
(* empty, and null when no such event was processed.                       *)
(***************************************************************************)
\* the id an end_metadata event carries (Undefined: no such event, or no id)
MetaIdOfParsed(parsed) ==
  IF /\ parsed.ok
     /\ parsed.val.t = "obj"
     /\ Get(parsed.val, KeyType) = EndMetadata
     /\ Truthy(Get(parsed.val, KeyAgentMessageId))
  THEN Get(parsed.val, KeyAgentMessageId)
  ELSE Undefined

MetaId(line) ==
  IF IsDataEvent(line) THEN MetaIdOfParsed(JSONParse(Payload(line))) ELSE Undefined

RECURSIVE LastMetaId(_, _)
\* the id of the last end_metadata event among the first n processed lines
LastMetaId(handled, n) ==
  IF n = 0 THEN Null
  ELSE IF MetaId(StreamLines[handled[n]]) # Undefined
       THEN MetaId(StreamLines[handled[n]])
       ELSE LastMetaId(handled, n - 1)

C4_LastWriteWins ==
  Returned => result = LastMetaId(cs.handled, Len(cs.handled))

\* two end_metadata events with the ids A and then B were processed: B is returned
C4_Witness ==
  /\ Returned
  /\ cs.handled = <<1, 2>>
  /\ MetaId(StreamLines[1]) = Str(<<"A">>)
  /\ MetaId(StreamLines[2]) = Str(<<"B">>)
  /\ result = Str(<<"B">>)

(***************************************************************************)
(* C5: a last line without a trailing newline is processed like a complete *)
(* line.  For a body without terminal marker whose last line is not        *)
(* terminated, the calls and the returned id are those for the same body   *)
(* followed by a newline.                                                  *)
(***************************************************************************)
C5_UnterminatedLikeTerminated ==
  (Returned /\ body # <<>> /\ body[Len(body)] # LF /\ cs.doneAt = 0) =>
    /\ cs.emitted = WholeRun(body \o <<LF>>).emitted
    /\ result = WholeRun(body \o <<LF>>).agentMessageId

(***************************************************************************)
(* C6: when the stream ends while the buffer holds an unterminated data    *)
(* event whose JSON payload carries a non-empty content text (and no field *)
(* that goes before content), that text, its escaped newlines replaced, is *)
(* the last onStreamChunk call, made once, after the calls for all earlier *)
(* lines.                                                                  *)
(***************************************************************************)
\* the content text of a parsed payload whose text is its content field
ContentOf(parsed) ==
  IF /\ parsed.ok
     /\ parsed.val.t = "obj"
     /\ Get(parsed.val, KeyContent).t = "str"
     /\ SelectChunk(parsed.val) = Get(parsed.val, KeyContent)
  THEN Get(parsed.val, KeyContent).v
  ELSE <<>>

FinalContent ==
  IF IsDataEvent(buffer) THEN ContentOf(JSONParse(Payload(buffer))) ELSE <<>>

C6_FinalContentEmitted ==
  (Returned /\ FinalContent # <<>>) =>
    /\ cs.emitted # <<>>
    /\ cs.emitted[Len(cs.emitted)] = ReplaceEscapedNewlines(FinalContent)
    /\ EmittedFor(cs.line) = {Len(cs.emitted)}
    /\ \A i \in 1..(Len(cs.emitted) - 1) : cs.emittedLine[i] < cs.line

\* an earlier line was emitted, then the unterminated content line from the buffer
C6_Witness ==
  /\ Returned
  /\ buffer = LineContentA
  /\ cs.emitted = << <<"a">>, <<"a">> >>
  /\ cs.emittedLine = <<1, 2>>

(***************************************************************************)
(* C7: a data event whose payload is no JSON and is not empty after        *)
(* trimming gets exactly one onStreamChunk call, with the payload text     *)
(* (escaped newlines replaced), and the line after it is processed too.    *)
(***************************************************************************)
Malformed(line) ==
  /\ IsDataEvent(line)
  /\ ~JSONParse(Payload(line)).ok
  /\ Trim(Payload(line)) # <<>>

C7_MalformedFallback ==
  Streamed =>
    \A j \in 1..Len(cs.handled) :
      Malformed(StreamLines[cs.handled[j]]) =>
        /\ Cardinality(EmittedFor(cs.handled[j])) = 1
        /\ \A i \in EmittedFor(cs.handled[j]) :
             cs.emitted[i] = ReplaceEscapedNewlines(Payload(StreamLines[cs.handled[j]]))
        /\ (/\ pc = "returned"
            /\ cs.handled[j] < Len(StreamLines)
            /\ Trim(StreamLines[cs.handled[j] + 1]) # <<>>)
           => \E m \in 1..Len(cs.handled) : cs.handled[m] = cs.handled[j] + 1

\* the malformed line was emitted raw and the content line after it was emitted
C7_Witness ==
  /\ Returned
  /\ StreamLines[1] = LineBad
  /\ cs.emitted = << <<"{", "b", "a", "d">>, <<"a">> >>
  /\ cs.emittedLine = <<1, 2>>

(***************************************************************************)
(* C8: a stream of zero bytes, done on its first read, makes the call      *)
(* return null with no onStreamChunk call.                                 *)
(***************************************************************************)
C8_EmptyStream ==
  (Returned /\ body = <<>>) => (result = Null /\ cs.emitted = <<>>)

C8_Witness == Returned /\ body = <<>> /\ pos = 0

(***************************************************************************)
(* C9: the onStreamChunk calls are made in arrival order.  Each call is    *)
(* the call of one line of the stream, and of two calls the earlier one is *)
(* for the earlier line, across chunks and the final buffer.               *)
(***************************************************************************)
C9_ArrivalOrder ==
  Streamed =>
    /\ \A i, j \in 1..Len(cs.emittedLine) :
         i < j => cs.emittedLine[i] < cs.emittedLine[j]
    /\ \A i \in 1..Len(cs.emitted) :
         ProcessLine(InitialCallState, StreamLines[cs.emittedLine[i]]).cs.emitted
           = <<cs.emitted[i]>>

\* two lines were emitted in order, the second one from the final buffer
C9_Witness ==
  /\ Returned
  /\ buffer = LineResponseEscaped
  /\ cs.emitted = << <<"{", "b", "a", "d">>, <<"x", LF, "y">> >>
  /\ cs.emittedLine = <<1, 2>>

(***************************************************************************)
(* C10: no text passed to onStreamChunk holds a backslash followed by n,   *)
(* on any path: JSON field, raw fallback, plain line, final buffer, JSON   *)
(* document.                                                               *)
(***************************************************************************)
EscapedNewline == <<BS, "n">>

C10_NoEscapedNewline ==
  \A i \in 1..Len(cs.emitted) : ~Includes(cs.emitted[i], EscapedNewline)

\* the escape in the response of a JSON document was replaced
C10_Witness ==
  /\ pc = "returned"
  /\ transport = "json"
  /\ Includes(DecodeAll(body), EscapedNewline)
  /\ cs.emitted = << <<"r", LF, "s">> >>

(***************************************************************************)
(* C11: when the response has no body reader the call fails with an error  *)
(* and onStreamChunk is not called.                                        *)
(***************************************************************************)
C11_NoReaderFails ==
  (api = ChatAPI /\ transport = "nobody") =>
    /\ cs.emitted = <<>>
    /\ pc \in {"fetch", "rejected"}
    /\ pc = "rejected" => result.t = "error"

C11_Witness ==
  api = ChatAPI /\ transport = "nobody" /\ pc = "rejected" /\ result = NewError(ErrorMessage)

(***************************************************************************)
(* C12: when a read fails the call rejects with an error, the calls made   *)
(* for the chunks before it stay as they are, the line waiting in the      *)
(* buffer is not passed on, and no onStreamChunk call follows.             *)
(***************************************************************************)
C12_ReadFailureKeepsEmissions ==
  [][/\ (Streamed /\ pc = "read" /\ pc' = "rejected") =>
          /\ result'.t = "error"
          /\ cs'.emitted = cs.emitted
          /\ \A i \in 1..Len(cs'.emittedLine) : cs'.emittedLine[i] < cs'.line
     /\ (Streamed /\ pc = "rejected") => cs'.emitted = cs.emitted]_vars

\* the read after the last chunk failed: one line was emitted, one waits in the buffer
C12_Witness ==
  /\ Streamed
  /\ pc = "rejected"
  /\ pos = Len(body)
  /\ buffer = LineContentA
  /\ cs.emitted = << <<"a">> >>

(***************************************************************************)
(* C13: with a sink that does not throw, no payload makes the streaming    *)
(* path throw: no exception leaves the processing of a line, so a          *)
(* streaming call rejects only when a read fails.                          *)
(***************************************************************************)
C13_NoPayloadRejection ==
  Streamed =>
    /\ ~cs.threw
    /\ pc = "rejected" => result = NewError(ErrorMessage)
    /\ pc = "read" /\ pos = Len(body) => ~ProcessBuffer(cs, buffer).threw

\* a malformed payload and a non-string content were processed and the call returned
C13_Witness ==
  /\ Returned
  /\ StreamLines[1] = LineBad
  /\ buffer = LineNumberContent
  /\ cs.handled = <<1, 2>>

(***************************************************************************)
(* C14: on the non-streaming path every JSON document makes the call       *)
(* invoke onStreamChunk exactly once, with the first of response, message  *)
(* and content, and return the document's agent_message_id (null when it   *)
(* has none), without an error.                                            *)
(***************************************************************************)
DocumentFields == <<KeyResponse, KeyMessage, KeyContent>>

Document == JSONParse(DecodeAll(body))

C14_DocumentEmittedOnce ==
  (api = ChatAPI /\ transport = "json" /\ pc # "fetch" /\ Document.ok) =>
    /\ pc = "returned"
    /\ Len(cs.emitted) = 1
    /\ FirstPresent(Document.val, DocumentFields, 1).t = "str" =>
         cs.emitted[1] =
           ReplaceEscapedNewlines(FirstPresent(Document.val, DocumentFields, 1).v)
    /\ result = Or(Get(Document.val, KeyAgentMessageId), Null)

(***************************************************************************)
(* C15: two calls over two streams, interleaved at their reads, do not     *)
(* interact: each makes the onStreamChunk calls and returns the id it      *)
(* makes and returns when it runs alone.                                   *)
(***************************************************************************)
C15_CallsDoNotInteract ==
  /\ (pc = "returned") =>
       /\ cs.emitted = WholeRun(body).emitted
       /\ result = WholeRun(body).agentMessageId
  /\ (other.pc = "returned") =>
       /\ other.cs.emitted = WholeRun(other.body).emitted
       /\ other.result = WholeRun(other.body).agentMessageId

\* both calls returned after emitting, the second one having started in between
C15_Witness ==
  /\ pc = "returned"
  /\ other.pc = "returned"
  /\ body # other.body
  /\ cs.emitted # <<>>
  /\ other.cs.emitted # <<>>
  /\ cs.emitted # other.cs.emitted

(***************************************************************************)
(* C16: onStreamChunk is invoked at most once for a line, even when an     *)
(* invocation throws.                                                      *)
(***************************************************************************)
C16_AtMostOncePerLine ==
  Streamed => \A k \in 1..cs.line : Cardinality(EmittedFor(k)) <= 1

(***************************************************************************)
(* C17: the text of a parsed data event is the first field the event has   *)
(* among response, message, chunk, content; when that field is empty       *)
(* nothing is emitted for the event.                                       *)
(***************************************************************************)
\* the lines processed as parsed data events (the payload is a JSON object)
ParsedEvents ==
  {k \in {cs.handled[j] : j \in 1..Len(cs.handled)} :
     /\ IsDataEvent(StreamLines[k])
     /\ JSONParse(Payload(StreamLines[k])).ok
     /\ JSONParse(Payload(StreamLines[k])).val.t = "obj"}

EventData(k) == JSONParse(Payload(StreamLines[k])).val

\* the calls made for the line k are the one call with the text, none for no text
EmitsText(k, text) ==
  IF text = <<>> THEN EmittedFor(k) = {}
  ELSE /\ Cardinality(EmittedFor(k)) = 1
       /\ \A i \in EmittedFor(k) : cs.emitted[i] = ReplaceEscapedNewlines(text)

C17_FirstPresentField ==
  Streamed =>
    \A k \in ParsedEvents :
      FirstPresent(EventData(k), ChunkFields, 1).t = "str" =>
        EmitsText(k, FirstPresent(EventData(k), ChunkFields, 1).v)

RECURSIVE FirstNonEmpty(_, _, _)
\* the value of the first field, from the i-th on, whose value is not empty
FirstNonEmpty(data, fields, i) ==
  IF i > Len(fields) THEN Str(<<>>)
  ELSE IF Truthy(Get(data, fields[i])) THEN Get(data, fields[i])
       ELSE FirstNonEmpty(data, fields, i + 1)

(***************************************************************************)
(* C17, as the code has it: the text of a parsed data event is the first   *)
(* field among response, message, chunk, content whose value is not empty; *)
(* an empty field is passed over for the next one, and nothing is emitted  *)
(* when none of the four holds a text.                                     *)
(***************************************************************************)
C17_FirstNonEmptyField ==
  Streamed =>
    \A k \in ParsedEvents :
      FirstNonEmpty(EventData(k), ChunkFields, 1).t = "str" =>
        EmitsText(k, FirstNonEmpty(EventData(k), ChunkFields, 1).v)

\* an event with an empty response and a content: the content was emitted
C17_Witness ==
  /\ Returned
  /\ buffer = LineEmptyResponse
  /\ ParsedEvents = {1}
  /\ cs.emitted = << <<"y">> >>

(***************************************************************************)
(* C18: the recorded id comes from end_metadata events only.  It changes   *)
(* only in a step that processes an end_metadata data event with a         *)
(* non-empty agent_message_id, and then to an id such an event carries.    *)
(***************************************************************************)
C18_IdOnlyFromEndMetadata ==
  [][(Streamed /\ cs'.agentMessageId # cs.agentMessageId) =>
       \E j \in (Len(cs.handled) + 1)..Len(cs'.handled) :
         MetaId(StreamLines[cs'.handled[j]]) = cs'.agentMessageId]_vars

\* an event of another type carrying the id B came after the id A was recorded
C18_Witness ==
  /\ Returned
  /\ StreamLines[1] = LineMetaA
  /\ buffer = LineOtherTypeId
  /\ cs.handled = <<1, 2>>
  /\ result = Str(<<"A">>)

(***************************************************************************)
(* C19: a data line is the terminal marker exactly when its payload is     *)
(* [DONE]; a payload that holds [DONE] inside other text is an ordinary    *)
(* data event and its text is emitted.                                     *)
(***************************************************************************)
C19_MarkerIsExact ==
  Streamed =>
    /\ cs.doneAt # 0 => Payload(StreamLines[cs.doneAt]) = DoneMarker
    /\ \A j \in 1..Len(cs.handled) :
         StreamLines[cs.handled[j]] = LineDoneInContent =>
           EmitsText(cs.handled[j], DoneMarker)

(***************************************************************************)
(* C20: every wrapper rejects, on a failed request or a status that is no  *)
(* success, with an ApiError whose endpoint names the endpoint.            *)
(***************************************************************************)
C20_UniformApiError ==
  pc = "rejected" =>
    /\ result.t = "error"
    /\ result.v.name = "ApiError"
    /\ result.v.endpoint = Endpoint(api)

(***************************************************************************)
(* C21: the error of callChatAPI, fetchAnalytics and fetchHubSpotSessions  *)
(* does not depend on the cause: whatever failed (the request, a status of *)
(* 500 or 404, the missing reader, a read), the message is the one fixed   *)
(* message of the wrapper.                                                 *)
(***************************************************************************)
C21_MessageIndependentOfCause ==
  (pc = "rejected" /\ api \in {ChatAPI} \cup DataWrappers) =>
    /\ result.t = "error"
    /\ result.v.message = FailureMessage(api)

\* a status of 404 gave the message a failed request gives
C21_Witness ==
  /\ pc = "rejected"
  /\ api = "fetchAnalytics"
  /\ transport = "status404"
  /\ result.v.message = "Failed to fetch analytics data"

(***************************************************************************)
(* C22: a complete line is emitted as literal text exactly when it is not  *)
(* empty after trimming and starts with none of data:, event:, id:.        *)
(***************************************************************************)
\* onStreamChunk was called for the line k with the line itself
EmittedLiteral(k) ==
  \E i \in EmittedFor(k) : cs.emitted[i] = ReplaceEscapedNewlines(StreamLines[k])

IsPlain(line) ==
  /\ Trim(line) # <<>>
  /\ ~StartsWith(line, DataField)
  /\ ~StartsWith(line, EventPrefix)
  /\ ~StartsWith(line, IdPrefix)

C22_PlainLinesOnly ==
  Streamed =>
    \A j \in 1..Len(cs.handled) :
      cs.handled[j] < Len(StreamLines) =>
        (EmittedLiteral(cs.handled[j]) <=> IsPlain(StreamLines[cs.handled[j]]))

(***************************************************************************)
(* C23: after each chunk the buffer holds no newline: it is the one        *)
(* partial line at the end of the text decoded so far, and every complete  *)
(* line before it that is not blank went into line processing, unless a    *)
(* terminal marker before it broke the loop.                               *)
(***************************************************************************)
\* the lines of the text decoded from the bytes read so far
SeenLines == Split(DecodeStream(SubSeq(body, 1, pos), FALSE).text)

WasHandled(k) == \E j \in 1..Len(cs.handled) : cs.handled[j] = k

C23_LineBuffer ==
  (Streamed /\ pc = "read") =>
    /\ \A i \in 1..Len(buffer) : buffer[i] # LF
    /\ buffer = SeenLines[Len(SeenLines)]
    /\ cs.line = Len(SeenLines)
    /\ \A k \in 1..(Len(SeenLines) - 1) :
         Trim(SeenLines[k]) # <<>> =>
           \/ WasHandled(k)
           \/ \E d \in 1..(k - 1) : WasHandled(d) /\ ~IsDataEvent(SeenLines[d])
                                     /\ StartsWith(SeenLines[d], DataPrefix)

\* a complete line was processed and a part of the next line waits in the buffer
C23_Witness ==
  /\ Streamed
  /\ pc = "read"
  /\ cs.handled = <<1>>
  /\ buffer # <<>>
  /\ pos < Len(body)

(***************************************************************************)
(* C26: the raw payload is emitted only when the payload is no JSON: for a *)
(* data event whose payload is JSON (null, an object whose text field is   *)
(* no string) the raw payload text is never passed to onStreamChunk.       *)
(***************************************************************************)
C26_RawOnlyOnParseFailure ==
  Streamed =>
    \A j \in 1..Len(cs.handled) :
      (/\ IsDataEvent(StreamLines[cs.handled[j]])
       /\ JSONParse(Payload(StreamLines[cs.handled[j]])).ok) =>
        \A i \in EmittedFor(cs.handled[j]) :
          cs.emitted[i] # ReplaceEscapedNewlines(Payload(StreamLines[cs.handled[j]]))

(***************************************************************************)
(* C24: after any calls of handleScroll on one ref, at most one timer is   *)
(* pending, and from the first call on isScrolling is true until the       *)
(* duration of the most recent call has elapsed since that call: no timer  *)
(* of an earlier call resets the state before.                             *)
(***************************************************************************)
C24_Debounce ==
  /\ Cardinality(scroll.timers) <= 1
  /\ (scroll.calls > 0 /\ scroll.now < scroll.lastCall + scroll.duration) =>
       scroll.isScrolling
  /\ (scroll.calls > 0 /\ ~scroll.isScrolling) => scroll.timers = {}

\* a call came while the timer of the call before was pending, and its own timer
\* has reset the state
C24_Witness ==
  /\ scroll.calls = 2
  /\ scroll.lastCall = 1
  /\ ~scroll.isScrolling
  /\ scroll.now = scroll.lastCall + scroll.duration

(***************************************************************************)
(* C25: the preset range is applied only when neither custom date is       *)
(* given: with a custom date the query string holds exactly the custom     *)
(* dates given and nothing derived from the time filter, and start_date    *)
(* and end_date each occur at most once in the query string.               *)
(***************************************************************************)
\* the number of places sub occurs at in s
Occurrences(s, sub) ==
  Cardinality({i \in 1..Len(s) :
                 i + Len(sub) - 1 <= Len(s) /\ SubSeq(s, i, i + Len(sub) - 1) = sub})

\* the query string of the custom dates given, and of nothing else
CustomSearch(params) ==
  <<"?">>
  \o (IF Truthy(params.start_date)
      THEN KeyStartDate \o <<"=">> \o params.start_date.v ELSE <<>>)
  \o (IF Truthy(params.start_date) /\ Truthy(params.end_date) THEN <<"&">> ELSE <<>>)
  \o (IF Truthy(params.end_date)
      THEN KeyEndDate \o <<"=">> \o params.end_date.v ELSE <<>>)

C25_PresetOnlyWithoutCustomDates ==
  query.built =>
    /\ Occurrences(query.url.search, KeyStartDate \o <<"=">>) <= 1
    /\ Occurrences(query.url.search, KeyEndDate \o <<"=">>) <= 1
    /\ (Truthy(query.params.start_date) \/ Truthy(query.params.end_date)) =>
         query.url.search = CustomSearch(query.params)

\* a custom start date and a time filter were given: the request carries the custom
\* date alone
C25_Witness ==
  /\ query.built
  /\ query.params.start_date = CustomStart
  /\ query.params.end_date = Str(<<>>)
  /\ query.params.timeFilter = FilterMonth
  /\ query.url.search = <<"?">> \o KeyStartDate \o <<"=">> \o CustomStart.v

(***************************************************************************)
(* C30: for the month filter the range, in local calendar terms, starts on *)
(* day 1 of the current month and ends on the last day of that month, on   *)
(* every day of the month; and for no filter is the start after the end.   *)
(***************************************************************************)
\* date a is not after date b
NotAfter(a, b) ==
  \/ a.y < b.y
  \/ a.y = b.y /\ a.m < b.m
  \/ a.y = b.y /\ a.m = b.m /\ a.d <= b.d

C30_MonthRange ==
  (query.built /\ UsesPreset(query.params)) =>
    /\ NotAfter(query.range.startDate, query.range.endDate)
    /\ query.params.timeFilter = FilterMonth =>
         /\ query.range.startDate = [y |-> query.now.y, m |-> query.now.m, d |-> 1]
         /\ query.range.endDate =
              [y |-> query.now.y, m |-> query.now.m,
               d |-> DaysInMonth(query.now.y, query.now.m)]

(***************************************************************************)
(* C27: once every chat-history request has settled, the chat and the      *)
(* HubSpot interaction shown are those of the selected session, never      *)
(* those of an earlier selection whose response came late.                 *)
(***************************************************************************)
\* no request is in flight and no effect is left to run
HistorySettled == EffectsFlushed /\ history.inFlight = {}

C27_ShowsSelectedSession ==
  (HistorySettled /\ history.selectedSessionId # "" /\ history.chatHistory # <<>>) =>
    /\ history.chatHistory = ChatHistoryResponse(history.selectedSessionId).messages
    /\ history.hubspotInteraction =
         ChatHistoryResponse(history.selectedSessionId).hubspot_interaction

(***************************************************************************)
(* C28: loadingChat is true whenever a chat-history request is in flight,  *)
(* also when a click and the effect each start a request and when requests *)
(* for different sessions overlap.                                         *)
(***************************************************************************)
C28_LoadingWhileInFlight ==
  (history.mounted /\ history.inFlight # {}) => history.loadingChat

(***************************************************************************)
(* C29: a failed analytics load is recoverable: when the load that settled *)
(* last was a success (after a failure and Retry too), the dashboard is    *)
(* rendered, not the error screen.                                         *)
(***************************************************************************)
C29_RetryRecovers ==
  (/\ home.mounted
   /\ ~home.effectPending
   /\ home.inFlight = {}
   /\ home.lastSettled = "ok") => Screen(home) = "dashboard"

====
